---------------------------- MODULE Spec2Model ----------------------------
(***************************************************************************)
(* beacon-api-wrapper (cmd/main.go): a conditional reverse proxy in front  *)
(* of a beacon node API.  The module models the process (main, the Serve   *)
(* goroutine, signal delivery), the gorilla/mux route table, the two       *)
(* handlers and the pure functions they call.                             *)
(*                                                                         *)
(* Strings that the code inspects character by character (the {id} path    *)
(* parameter, the genesis_time field) are sequences of one-character       *)
(* strings.  Go's uint64 is an unsigned word of WordBits bits: TLC's       *)
(* integers are 32 bits wide, so the word is scaled down and every         *)
(* operation of the code on uint64 is taken modulo 2^WordBits.             *)
(***************************************************************************)
EXTENDS Integers, Sequences, FiniteSets

\* ------------------------------------------------------------ bounds
WordBits == 11
StartClock == 1298
MaxClock == 1301
MaxConns == 2

\* ------------------------------------------------- program constants
portDefault == 3600
secondsPerSlot == 12
slotsPerEpoch == 32
retentionPeriodDefault == 3
HashLen == 66
beaconEndpointDefault == "http://127.0.0.1:5052"
versionMethod == "/eth/v1/node/version"
specMethod == "/eth/v1/config/spec"
genesisMethod == "/eth/v1/beacon/genesis"
sidecarsMethod == "/eth/v1/beacon/blob_sidecars/{id}"

\* uint64, scaled: values 0 .. MaxUint, arithmetic modulo Modulus.
Modulus == 2 ^ WordBits
MaxUint == Modulus - 1
U64Sub(a, b) == (a - b + Modulus) % Modulus
U64Mul(a, b) == (a * b) % Modulus

\* ----------------------------------------------------------- strings
Digits == {"0", "1", "2", "3", "4", "5", "6", "7", "8", "9"}
HexLetters == {"a", "b", "c", "d", "e", "f", "A", "B", "C", "D", "E", "F"}
DigitVal(c) ==
    CASE c = "0" -> 0 [] c = "1" -> 1 [] c = "2" -> 2 [] c = "3" -> 3
      [] c = "4" -> 4 [] c = "5" -> 5 [] c = "6" -> 6 [] c = "7" -> 7
      [] c = "8" -> 8 [] c = "9" -> 9
Rep(c, n) == [i \in 1..n |-> c]
HasPrefix(s, p) == Len(s) >= Len(p) /\ SubSeq(s, 1, Len(p)) = p

\* strconv.ParseUint(s, 10, 64): "" and any character that is not a decimal
\* digit (a sign, an underscore, a letter) are syntax errors; a value above
\* the largest word is a range error.  The accumulator stops at the first
\* overflow, as the code's cutoff test does.
RECURSIVE ParseDigits(_, _, _)
ParseDigits(s, i, n) ==
    IF i > Len(s) THEN [err |-> "", val |-> n]
    ELSE IF s[i] \notin Digits THEN [err |-> "syntax", val |-> 0]
    ELSE IF n * 10 + DigitVal(s[i]) > MaxUint THEN [err |-> "range", val |-> MaxUint]
    ELSE ParseDigits(s, i + 1, n * 10 + DigitVal(s[i]))
ParseUint(s) ==
    IF s = <<>> THEN [err |-> "syntax", val |-> 0]
    ELSE IF \E i \in 1..Len(s) : s[i] \notin Digits THEN [err |-> "syntax", val |-> 0]
    ELSE ParseDigits(s, 1, 0)

\* encoding/hex.DecodeString(s): fails on any byte that is not a hexadecimal
\* digit and on an odd length.
HexDecodeString(s) ==
    IF \E i \in 1..Len(s) : s[i] \notin (Digits \cup HexLetters) THEN "invalid byte"
    ELSE IF Len(s) % 2 # 0 THEN "odd length"
    ELSE ""


\* ------------------------------------------------------- classifier
knownIds == << <<"g", "e", "n", "e", "s", "i", "s">>,
               <<"f", "i", "n", "a", "l", "i", "z", "e", "d">>,
               <<"h", "e", "a", "d">> >>

\* isHash hands the whole string, its "0x" prefix included, to
\* hex.DecodeString.
isHash(s) ==
    IF Len(s) # HashLen \/ ~HasPrefix(s, <<"0", "x">>) THEN FALSE
    ELSE HexDecodeString(s) = ""

\* Mutant: the loop over knownIds stops one element early.
isKnownIdentifier_StopsEarly(id) == \E k \in 1..(Len(knownIds) - 1) : knownIds[k] = id
isKnownIdentifier(id) == \E k \in 1..Len(knownIds) : knownIds[k] = id

\* slotAge(id) at wall clock t (time.Now().Unix(), converted to uint64) with
\* genesis time g: both the subtraction and the result are uint64.
curSlot(t, g) == U64Sub(t % Modulus, g) \div secondsPerSlot
slotAge(id, t, g) ==
    LET p == ParseUint(id) IN
    IF p.err # "" THEN [err |-> p.err, age |-> 0]
    ELSE IF curSlot(t, g) < p.val THEN [err |-> "querying a future slot", age |-> 0]
    ELSE [err |-> "", age |-> curSlot(t, g) - p.val]

\* retentionPeriod*slotsPerEpoch, a uint64 product.
retentionWindow(r) == U64Mul(r, slotsPerEpoch)

\* ------------------------------------------------------ HTTP values
NoId == <<>>
Body(text, arg) == [text |-> text, arg |-> arg]
Response(status, hdrs, body) == [status |-> status, hdrs |-> hdrs, body |-> body]
NoResponse == Response(0, {}, Body("", NoId))
emptySidecarList == Body("{\"data\":[]}", NoId)

\* http.Error(w, msg, code): a text/plain body and the status code.
HttpError(msg, arg, code) ==
    Response(code, {"Content-Type: text/plain", "X-Content-Type-Options"}, Body(msg, arg))

\* The decision of handleBlobSidecarsRequest for the id of one request, at
\* wall clock t, genesis time g and retention period r.  "proxy" stands for
\* the call of the reverse proxy; every other outcome is the response the
\* handler writes itself.
handleBlobSidecarsDecision(id, t, g, r) ==
    LET a == slotAge(id, t, g) IN
    IF isHash(id)
      THEN [kind |-> "local", resp |-> HttpError("Block hash is not supported yet", NoId, 500)]
    ELSE IF isKnownIdentifier(id)
      THEN [kind |-> "local", resp |-> HttpError("%s is not supported yet", id, 500)]
    ELSE IF a.err # ""
      THEN [kind |-> "local", resp |-> HttpError("Invalid block ID", NoId, 400)]
    ELSE IF a.age > retentionWindow(r)
      THEN [kind |-> "local",
            resp |-> Response(200, {"Content-Type: application/json"}, emptySidecarList)]
    ELSE [kind |-> "proxy", resp |-> NoResponse]

\* --------------------------------------------------------- requests
\* The ids the model sends: decimal slots (one with leading zeros), the
\* symbolic tags and a tag in another case, 66-character strings with and
\* without the 0x prefix and with a byte that is not hexadecimal, and
\* strings ParseUint refuses (a sign, a letter, a value above the word).
SlotIds == { <<"0">>, <<"3">>, <<"4">>, <<"1", "0">>, <<"1", "0", "0">>,
             <<"1", "0", "1">>, <<"0", "0", "4">> }
HashZero == <<"0", "x">> \o Rep("0", 64)
HashMixed == <<"0", "x">> \o Rep("a", 32) \o Rep("F", 32)
HashIds == { HashZero, HashMixed }
OtherIds == { <<"H", "e", "a", "d">>,
              <<"0", "X">> \o Rep("0", 64),
              <<"0", "x">> \o Rep("0", 63) \o <<"g">>,
              <<"0", "x">> \o Rep("0", 63),
              <<"-", "1">>, <<"1", "a">>, <<"9", "9", "9", "9", "9">> }
SymbolicIds == { knownIds[k] : k \in 1..Len(knownIds) }
Ids == SlotIds \cup HashIds \cup SymbolicIds \cup OtherIds

Request(path, id, method, hdrs, body) ==
    [path |-> path, id |-> id, method |-> method, hdrs |-> hdrs, body |-> body]
NoRequest == Request("", NoId, "", {}, "")
ProxyPaths == {versionMethod, specMethod, genesisMethod}
Requests ==
    { Request(p, NoId, "GET", {"Accept"}, "") : p \in ProxyPaths }
    \cup { Request(p, NoId, "POST", {"Accept", "Connection", "Keep-Alive"}, "b") : p \in ProxyPaths }
    \cup { Request(sidecarsMethod, id, "GET", {"Accept"}, "") : id \in Ids }

\* The route table main registers on the mux router.
Route(path) ==
    IF path \in {versionMethod, specMethod, genesisMethod} THEN "createReverseProxy"
    ELSE IF path = sidecarsMethod THEN "handleBlobSidecarsRequest"
    ELSE "NotFound"

\* ---------------------------------------------------- reverse proxy
\* httputil.NewSingleHostReverseProxy(target).ServeHTTP: the outbound
\* request keeps the method, the path and the body, is addressed to the
\* target, loses the hop-by-hop headers and gains X-Forwarded-For; the
\* upstream's response is copied back without its hop-by-hop headers; an
\* upstream that cannot be reached is answered with 502 Bad Gateway.
HopByHop == {"Connection", "Proxy-Connection", "Keep-Alive", "Proxy-Authenticate",
             "Proxy-Authorization", "Te", "Trailer", "Transfer-Encoding", "Upgrade"}
ReverseProxyRequest(target, q) ==
    [target |-> target, path |-> q.path, id |-> q.id, method |-> q.method,
     hdrs |-> (q.hdrs \ HopByHop) \cup {"X-Forwarded-For"}, body |-> q.body]
NoOutbound == [target |-> "", path |-> "", id |-> NoId, method |-> "", hdrs |-> {}, body |-> ""]
ReverseProxyResponse(u) ==
    IF u.status = 0 THEN Response(502, {}, Body("", NoId))
    ELSE Response(u.status, u.hdrs \ HopByHop, u.body)

\* What the upstream may answer a forwarded request with; status 0 stands
\* for a connection that fails.
UpstreamReplies ==
    { Response(200, {"Content-Type: application/json", "Keep-Alive"}, Body("upstream", NoId)),
      Response(0, {}, Body("", NoId)) }

\* What the upstream may answer the genesis query of startup with.
GenesisReplies ==
    { [kind |-> "neterr", field |-> <<>>], [kind |-> "nonjson", field |-> <<>>],
      [kind |-> "null", field |-> <<>>],
      [kind |-> "json", field |-> <<>>],
      [kind |-> "json", field |-> <<"1", "2", "a">>],
      [kind |-> "json", field |-> <<"9", "9", "9", "9", "9">>],
      [kind |-> "json", field |-> <<"1", "0", "0">>],
      [kind |-> "json", field |-> <<"1", "3", "0", "0">>] }

\* The values of the -r flag the model starts with: none, the default, and
\* the smallest one whose product with slotsPerEpoch leaves the word.
RetentionFlags == {0, retentionPeriodDefault, Modulus \div slotsPerEpoch}

\* ------------------------------------------------------------ state
VARIABLES
    pc,              \* where main is: query, listen, spawn, notify, wait, shutdown, exited
    exit,            \* how the process ended: "" while it runs, "0", "1", "2", "signal"
    cause,           \* what ended it: fetch, listen, serve, signal, shutdown
    listener,        \* the TCP listener: none, open, closed
    notified,        \* signal.Notify(quit, SIGINT, SIGTERM) has been called
    quit,            \* signals queued in the quit channel (capacity 1)
    slot0Timestamp,  \* the genesis time, set by main from queryGenesisTime
    retentionPeriod, \* flag -r
    port,            \* flag -p
    beaconEndpoint,  \* flag -b
    now,             \* the wall clock, time.Now().Unix()
    conns,           \* per connection: the path of the request whose handler waits for the upstream
    last,            \* the last thing a handler did: a response written, a request forwarded
    genesisGets,     \* GETs of the genesis endpoint sent by queryGenesisTime
    signalled,       \* a termination signal has been delivered to the process
    abandoned        \* requests that were in flight when the process ended

vars == <<pc, exit, cause, listener, notified, quit, slot0Timestamp, retentionPeriod,
          port, beaconEndpoint, now, conns, last, genesisGets, signalled, abandoned>>
config == <<slot0Timestamp, retentionPeriod, port, beaconEndpoint>>
process == <<pc, exit, cause, listener, notified, quit, genesisGets, signalled, abandoned>>

Conns == 1..MaxConns
Idle == [busy |-> FALSE, path |-> ""]
Waiting(q) == [busy |-> TRUE, path |-> q.path]
InFlight == {c \in Conns : conns[c].busy}
Event(kind, q, resp, out, up) ==
    [kind |-> kind, req |-> q, resp |-> resp, out |-> out, up |-> up]
NoEvent == Event("none", NoRequest, NoResponse, NoOutbound, NoResponse)

\* init(): the flags are parsed before main runs; slot0Timestamp has Go's
\* zero value.
Init ==
    /\ pc = "query" /\ exit = "" /\ cause = ""
    /\ listener = "none" /\ notified = FALSE /\ quit = 0
    /\ slot0Timestamp = 0
    /\ retentionPeriod \in RetentionFlags
    /\ port = portDefault
    /\ beaconEndpoint = beaconEndpointDefault
    /\ now = StartClock
    /\ conns = [c \in Conns |-> Idle]
    /\ last = NoEvent
    /\ genesisGets = 0 /\ signalled = FALSE /\ abandoned = 0

\* The process ends (os.Exit from log.Fatal, a panic, the default action of
\* a signal, or main returning): the listener and every connection go with
\* it.
Terminate(status, why) ==
    /\ pc' = "exited" /\ exit' = status /\ cause' = why
    /\ listener' = IF listener = "open" THEN "closed" ELSE listener
    /\ abandoned' = Cardinality(InFlight)
    /\ conns' = [c \in Conns |-> Idle]

\* ------------------------------------------------------------ startup
\* queryGenesisTime and the assignment of its result in main.  A failed GET,
\* a body that is not JSON and a genesis_time that ParseUint refuses end in
\* log.Fatalf; the JSON value null leaves a nil *GenesisResponse, whose use
\* panics.
\* Mutant: the failure is logged (log.Printf) and main goes on to listen.
queryGenesisFailed_LogsAndGoesOn(status) ==
    /\ pc' = "listen"
    /\ UNCHANGED <<exit, cause, listener, notified, quit, config, now, conns, last,
                   signalled, abandoned>>
queryGenesisFailed(status) ==
    /\ Terminate(status, "fetch")
    /\ UNCHANGED <<notified, quit, config, now, last, signalled>>

queryGenesisTime(u) ==
    /\ pc = "query"
    /\ genesisGets' = genesisGets + 1
    /\ IF u.kind \in {"neterr", "nonjson"} THEN queryGenesisFailed("1")
       ELSE IF u.kind = "null" THEN queryGenesisFailed("2")
       ELSE IF ParseUint(u.field).err # "" THEN queryGenesisFailed("1")
       ELSE /\ slot0Timestamp' = ParseUint(u.field).val
            /\ pc' = "listen"
            /\ UNCHANGED <<exit, cause, listener, notified, quit, retentionPeriod, port,
                           beaconEndpoint, now, conns, last, signalled, abandoned>>

\* net.Listen succeeds, or fails (log.Fatal).
Listen ==
    /\ pc = "listen"
    /\ \/ /\ listener' = "open" /\ pc' = "spawn"
          /\ UNCHANGED <<exit, cause, conns, abandoned>>
       \/ Terminate("1", "listen")
    /\ UNCHANGED <<notified, quit, config, now, last, genesisGets, signalled>>

\* go func() { server.Serve(listener) }(): from here on the server accepts.
StartServe ==
    /\ pc = "spawn"
    /\ pc' = "notify"
    /\ UNCHANGED <<exit, cause, listener, notified, quit, config, now, conns, last,
                   genesisGets, signalled, abandoned>>

\* The three log lines, make(chan os.Signal, 1) and signal.Notify.
NotifySignals ==
    /\ pc = "notify"
    /\ notified' = TRUE
    /\ pc' = "wait"
    /\ UNCHANGED <<exit, cause, listener, quit, config, now, conns, last,
                   genesisGets, signalled, abandoned>>

Serving == pc \in {"notify", "wait"} /\ listener = "open"

\* ----------------------------------------------------------- handlers
\* Mutant: only GET is forwarded, any other method is answered with 405.
createReverseProxy_GetOnly(c, q) ==
    /\ Serving /\ ~conns[c].busy
    /\ Route(q.path) = "createReverseProxy"
    /\ IF q.method = "GET"
       THEN /\ conns' = [conns EXCEPT ![c] = Waiting(q)]
            /\ last' = Event("forward", q, NoResponse,
                             ReverseProxyRequest(beaconEndpoint, q), NoResponse)
       ELSE /\ conns' = conns
            /\ last' = Event("local", q, HttpError("Method Not Allowed", NoId, 405),
                             NoOutbound, NoResponse)
    /\ UNCHANGED <<process, config, now>>

\* The handler createReverseProxy returns: the request goes to the reverse
\* proxy, whatever its method, headers and body.
createReverseProxy(c, q) ==
    /\ Serving /\ ~conns[c].busy
    /\ Route(q.path) = "createReverseProxy"
    /\ conns' = [conns EXCEPT ![c] = Waiting(q)]
    /\ last' = Event("forward", q, NoResponse, ReverseProxyRequest(beaconEndpoint, q), NoResponse)
    /\ UNCHANGED <<process, config, now>>

\* Mutant: an error response is followed by log.Fatal.
handleBlobSidecarsRequest_FatalOnError(c, q) ==
    /\ Serving /\ ~conns[c].busy
    /\ Route(q.path) = "handleBlobSidecarsRequest"
    /\ LET d == handleBlobSidecarsDecision(q.id, now, slot0Timestamp, retentionPeriod) IN
       IF d.kind = "proxy"
       THEN /\ conns' = [conns EXCEPT ![c] = Waiting(q)]
            /\ last' = Event("forward", q, NoResponse,
                             ReverseProxyRequest(beaconEndpoint, q), NoResponse)
            /\ UNCHANGED process
       ELSE /\ last' = Event("local", q, d.resp, NoOutbound, NoResponse)
            /\ IF d.resp.status >= 400
               THEN Terminate("1", "serve") /\ UNCHANGED <<notified, quit, genesisGets, signalled>>
               ELSE conns' = conns /\ UNCHANGED process
    /\ UNCHANGED <<config, now>>

\* handleBlobSidecarsRequest: it reads the clock and the globals once, then
\* either writes its own response or calls the reverse proxy.
handleBlobSidecarsRequest(c, q) ==
    /\ Serving /\ ~conns[c].busy
    /\ Route(q.path) = "handleBlobSidecarsRequest"
    /\ LET d == handleBlobSidecarsDecision(q.id, now, slot0Timestamp, retentionPeriod) IN
       IF d.kind = "proxy"
       THEN /\ conns' = [conns EXCEPT ![c] = Waiting(q)]
            /\ last' = Event("forward", q, NoResponse,
                             ReverseProxyRequest(beaconEndpoint, q), NoResponse)
       ELSE /\ conns' = conns
            /\ last' = Event("local", q, d.resp, NoOutbound, NoResponse)
    /\ UNCHANGED <<process, config, now>>

\* The upstream answers (or fails) a forwarded request and the reverse proxy
\* writes the response; the handler returns.
UpstreamReply(c, u) ==
    /\ pc # "exited" /\ conns[c].busy
    /\ conns' = [conns EXCEPT ![c] = Idle]
    /\ last' = Event("relay", Request(conns[c].path, NoId, "", {}, ""),
                     ReverseProxyResponse(u), NoOutbound, u)
    /\ UNCHANGED <<process, config, now>>

\* ----------------------------------------------------------- shutdown
\* SIGINT or SIGTERM reaches the process.  Once signal.Notify has run the
\* signal is queued in quit (a send that does not block: it is dropped when
\* the channel is full); before that the Go runtime's default applies and
\* the process ends at once.
Signal ==
    /\ pc # "exited"
    /\ signalled' = TRUE
    /\ IF notified
       THEN /\ quit' = 1
            /\ UNCHANGED <<pc, exit, cause, listener, conns, abandoned>>
       ELSE /\ Terminate("signal", "signal")
            /\ UNCHANGED quit
    /\ UNCHANGED <<notified, config, now, last, genesisGets>>

\* <-quit, then server.Shutdown(context.Background()) closes the listener;
\* Shutdown returns once no connection is active, and main returns.
ReceiveQuit ==
    /\ pc = "wait" /\ quit > 0
    /\ quit' = quit - 1
    /\ pc' = "shutdown"
    /\ listener' = "closed"
    /\ UNCHANGED <<exit, cause, notified, config, now, conns, last, genesisGets,
                   signalled, abandoned>>

ShutdownReturns ==
    /\ pc = "shutdown" /\ InFlight = {}
    /\ Terminate("0", "shutdown")
    /\ UNCHANGED <<notified, quit, config, now, last, genesisGets, signalled>>

\* server.Serve returns an error other than ErrServerClosed: log.Fatal.
ServeError ==
    /\ Serving
    /\ Terminate("1", "serve")
    /\ UNCHANGED <<notified, quit, config, now, last, genesisGets, signalled>>

\* The wall clock advances by one second.
Tick ==
    /\ pc # "exited" /\ now < MaxClock
    /\ now' = now + 1
    /\ UNCHANGED <<process, config, conns, last>>

Next ==
    \/ \E u \in GenesisReplies : queryGenesisTime(u)
    \/ Listen
    \/ StartServe
    \/ NotifySignals
    \/ \E c \in Conns, q \in Requests : createReverseProxy(c, q)
    \/ \E c \in Conns, q \in Requests : handleBlobSidecarsRequest(c, q)
    \/ \E c \in Conns, u \in UpstreamReplies : UpstreamReply(c, u)
    \/ Signal
    \/ ReceiveQuit
    \/ ShutdownReturns
    \/ ServeError
    \/ Tick

Spec == Init /\ [][Next]_vars

\* ======================================================================
\* The properties.  The quantities below are those of the specification,
\* over the integers: they use none of the code's operators.
\* ======================================================================
IsDecimal(id) == id # <<>> /\ \A i \in 1..Len(id) : id[i] \in Digits
\* The number a decimal string denotes; every number above the word is
\* reported as Modulus (it is then above every slot the clock can reach).
RECURSIVE DecimalValue(_, _, _)
DecimalValue(id, i, n) ==
    IF i > Len(id) THEN n
    ELSE IF n * 10 + DigitVal(id[i]) >= Modulus THEN Modulus
    ELSE DecimalValue(id, i + 1, n * 10 + DigitVal(id[i]))
SlotOf(id) == DecimalValue(id, 1, 0)
IsHashShaped(id) ==
    /\ Len(id) = 66 /\ id[1] = "0" /\ id[2] = "x"
    /\ \A i \in 3..66 : id[i] \in (Digits \cup HexLetters)
IsSymbolic(id) ==
    id \in { <<"g", "e", "n", "e", "s", "i", "s">>,
             <<"f", "i", "n", "a", "l", "i", "z", "e", "d">>,
             <<"h", "e", "a", "d">> }
\* floor((now - genesis_time) / 12): negative before genesis.
MathCurrentSlot == (now - slot0Timestamp) \div 12
MathWindow == retentionPeriod * 32

IsEmptyList(resp) ==
    /\ resp.status = 200
    /\ resp.body = Body("{\"data\":[]}", NoId)
    /\ "Content-Type: application/json" \in resp.hdrs
\* e records what the blob-sidecars handler did with a request.
SidecarEvent(e) == e.kind \in {"local", "forward"} /\ e.req.path = sidecarsMethod
\* This step is the blob-sidecars handler handling a request.
SidecarHandled == last' # last /\ SidecarEvent(last')
ProxyPathEvent(e) ==
    e.kind \in {"local", "forward", "relay"}
    /\ e.req.path \in {"/eth/v1/node/version", "/eth/v1/config/spec", "/eth/v1/beacon/genesis"}

\* C1: a blob-sidecars request for a decimal slot s not greater than the
\* current slot is answered with the empty list (HTTP 200) exactly when
\* current_slot - s > retention_window_epochs * 32, and is proxied otherwise.
C1_RetentionBoundary ==
    [][ (SidecarHandled /\ IsDecimal(last'.req.id) /\ SlotOf(last'.req.id) <= MathCurrentSlot)
        => IF MathCurrentSlot - SlotOf(last'.req.id) > MathWindow
           THEN last'.kind = "local" /\ IsEmptyList(last'.resp)
           ELSE last'.kind = "forward" ]_vars

\* The boundary of C1 where retention_window_epochs * 32 fits the word: the
\* comparison itself is strict, age = window is proxied.
RetentionBoundaryWithinWord ==
    [][ (SidecarHandled /\ IsDecimal(last'.req.id) /\ SlotOf(last'.req.id) <= MathCurrentSlot
         /\ MathWindow <= MaxUint)
        => IF MathCurrentSlot - SlotOf(last'.req.id) > MathWindow
           THEN last'.kind = "local" /\ IsEmptyList(last'.resp)
           ELSE last'.kind = "forward" ]_vars

\* The two sides of that boundary with genesis time 100 and a window of 3
\* epochs (96 slots): slot 3 at clock 1298 (current slot 99, age 96) is
\* proxied, and at clock 1300 (current slot 100, age 97) is empty-listed.
BoundaryAgeEqualsWindow ==
    /\ slot0Timestamp = 100 /\ retentionPeriod = 3 /\ now = 1298
    /\ SidecarEvent(last) /\ last.req.id = <<"3">> /\ last.kind = "forward"
BoundaryAgeAboveWindow ==
    /\ slot0Timestamp = 100 /\ retentionPeriod = 3 /\ now = 1300
    /\ SidecarEvent(last) /\ last.req.id = <<"3">> /\ IsEmptyList(last.resp)

\* C2: a blob-sidecars request whose id is 0x followed by 64 hexadecimal
\* digits is rejected with the 'Block hash is not supported yet' 500; it is
\* never a 400, a proxy or an empty list.
C2_HashRejected ==
    (SidecarEvent(last) /\ IsHashShaped(last.req.id))
    => /\ last.kind = "local"
       /\ last.resp.status = 500
       /\ last.resp.body = Body("Block hash is not supported yet", NoId)

\* C3: a blob-sidecars request whose id is neither a hash nor a symbolic tag
\* and that is not a decimal unsigned integer, or names a slot greater than
\* the current slot, is answered 400: never proxied, never empty-listed.
C3_FutureOrMalformedIs400 ==
    [][ (SidecarHandled /\ ~IsHashShaped(last'.req.id) /\ ~IsSymbolic(last'.req.id)
         /\ (~IsDecimal(last'.req.id) \/ SlotOf(last'.req.id) > MathCurrentSlot))
        => (last'.kind = "local" /\ last'.resp.status = 400) ]_vars

\* The statement of C3 once the clock has reached the genesis time.
FutureOrMalformedIs400AfterGenesis ==
    [][ (SidecarHandled /\ now >= slot0Timestamp
         /\ ~IsHashShaped(last'.req.id) /\ ~IsSymbolic(last'.req.id)
         /\ (~IsDecimal(last'.req.id) \/ SlotOf(last'.req.id) > MathCurrentSlot))
        => (last'.kind = "local" /\ last'.resp.status = 400) ]_vars

\* C4: a blob-sidecars request is rejected with the '<id> is not supported
\* yet' 500 exactly when its id is genesis, finalized or head, whatever the
\* clock and the configuration; no other string (another case) is symbolic.
C4_SymbolicRejected ==
    SidecarEvent(last)
    => ( IsSymbolic(last.req.id)
         <=> /\ last.kind = "local"
             /\ last.resp.status = 500
             /\ last.resp.body = Body("%s is not supported yet", last.req.id) )
C4_Witness ==
    /\ SidecarEvent(last) /\ last.req.id = <<"h", "e", "a", "d">>
    /\ last.resp.status = 500

\* C5: the listener exists, and a request is handled, only after the one
\* genesis GET succeeded and its genesis time was stored; when the fetch
\* fails the process has ended, no listener was bound and no request handled.
C5_FetchThenListen ==
    /\ (listener # "none" \/ last.kind # "none")
       => (genesisGets = 1 /\ cause # "fetch" /\ slot0Timestamp \in {100, 1300})
    /\ cause = "fetch"
       => (pc = "exited" /\ exit \in {"1", "2"} /\ listener = "none" /\ last.kind = "none")
    /\ genesisGets <= 1
C5_Witness ==
    /\ listener = "open" /\ slot0Timestamp = 1300 /\ genesisGets = 1
    /\ last.kind = "local" /\ last.resp.status = 400

C7_GracefulDrain ==
    (pc = "exited" /\ signalled /\ cause \in {"signal", "shutdown"}) => abandoned = 0

\* C8: after startup the genesis time and the flags are never written; a
\* step in which a handler answers or forwards a request changes nothing of
\* the process (no error ends the server), nothing of the configuration and
\* no other connection, and a response the handler writes itself is a
\* function of the id, the clock and the configuration alone.
C8_RequestsAreIndependent ==
    [][ /\ pc # "query" => config' = config
        /\ last' # last
           => /\ process' = process /\ config' = config /\ now' = now
              /\ Cardinality({c \in Conns : conns'[c] # conns[c]}) <= 1
              /\ (SidecarEvent(last') /\ last'.kind = "local")
                 => last'.resp = handleBlobSidecarsDecision(last'.req.id, now,
                                     slot0Timestamp, retentionPeriod).resp ]_vars
C8_Witness ==
    /\ pc = "wait" /\ listener = "open"
    /\ conns[1].busy /\ conns[1].path = sidecarsMethod
    /\ last.kind = "local" /\ last.resp.status = 400

\* C9: the current slot the handler computes is floor((now - genesis_time)
\* / 12) and its window is retention_window_epochs * 32, and while the
\* clock is before the genesis time no slot is answered with the empty list.
C9_NoWraparound ==
    [][ (SidecarHandled /\ IsDecimal(last'.req.id) /\ SlotOf(last'.req.id) <= MaxUint)
        => /\ curSlot(now, slot0Timestamp) = MathCurrentSlot
           /\ retentionWindow(retentionPeriod) = MathWindow
           /\ now < slot0Timestamp => ~IsEmptyList(last'.resp) ]_vars

\* C10: as the clock advances, the answers to requests for one slot only
\* move forward through 400, proxy, empty list: a request for the slot of
\* the previous request is never answered with an earlier kind.
OutcomeRank(e) ==
    IF e.kind = "forward" THEN 1 ELSE IF IsEmptyList(e.resp) THEN 2 ELSE 0
C10_OutcomesOnlyAdvance ==
    [][ (SidecarHandled /\ SidecarEvent(last) /\ last'.req.id = last.req.id
         /\ IsDecimal(last.req.id) /\ SlotOf(last.req.id) <= MaxUint)
        => OutcomeRank(last') >= OutcomeRank(last) ]_vars

=============================================================================
